---- MODULE Spec2Model ----
(***************************************************************************)
(* Model of sphinxit.core.connector.SphinxConnector (the connection pool   *)
(* and the query executor) and of the driver capability of                 *)
(* sphinxit.core.sql_engine.                                               *)
(*                                                                         *)
(* Threads call execute() and close_connections() on one shared client.    *)
(* A step of the model is one critical section of the pool mutex or one    *)
(* call into the driver; the mutex itself is the variable conn_lock.       *)
(* Connections are numbered in the order engine.get_connection() opened    *)
(* them: the k-th connection ever opened is the integer k.                 *)
(*                                                                         *)
(* OurSqlEngine.raise_for_exception unpacks the exception as a triple      *)
(* (errno, msg, extra), as oursql's own exceptions and Python 2 allow; the *)
(* exceptions of the model are such triples, reduced to (name, errno).     *)
(***************************************************************************)
EXTENDS Integers, Sequences, FiniteSets, TLC

\* ---------------------------------------------------------------- bounds
NumThreads == 2
MaxPoolSize == 2
MaxConns == 4
MaxBatch == 3
MaxRegistrations == 2
MaxLiveConns == 2

Threads == 1..NumThreads

\* Python's None where a connection is expected; the free mutex.
NoConn == 0
NoThread == 0

VARIABLES
    _driver_registry,  \* sql_engine._driver_registry: the class registered under each name
    registrations,     \* the register_engine calls made so far, in order, as <<name, class>>
    config,            \* the resolved configuration (SQL_ENGINE, POOL_SIZE, WITH_META, WITH_STATUS)
    engine,            \* self.engine: "None" or the class of the driver capability
    connections_pool,  \* self.__connections_pool: index 1 is the left end of the deque
    conn_lock,         \* self.__conn_lock: the thread holding it, or NoThread
    local,             \* self.__local: per thread, whether .conn is set and its value
    created,           \* number of connections engine.get_connection() has opened
    closed,            \* connections whose close() returned normally
    pc,                \* per thread: position in execute() / close_connections()
    call,              \* per thread: the operation in progress
    sxql_query,        \* execute(): the argument
    connection,        \* execute(): the connection bound by the with statement
    cursor,            \* execute(): the cursor
    sent,              \* the statements the call has passed to engine.execute, in order
    pair,              \* _execute_batch(): index of the pair the loop is at
    subresult,         \* _execute_batch(): subresult of the pair in progress
    batch_results,     \* _execute_batch(): its local total_results
    total_results,     \* execute(): total_results
    failed_at,         \* position in sent of the statement the driver raised on, or 0
    failure,           \* the exception the driver raised on it
    raised,            \* the exception leaving the try statement of execute()
    outcome            \* how the call ended

vars == <<_driver_registry, registrations, config, engine, connections_pool, conn_lock, local, created, closed,
          pc, call, sxql_query, connection, cursor, sent, pair, subresult,
          batch_results, total_results, failed_at, failure, raised, outcome>>

registryVars == <<_driver_registry, registrations>>
poolVars == <<connections_pool, conn_lock, local, created, closed>>
callVars == <<sxql_query, connection, cursor, sent, pair, subresult, batch_results,
              total_results, failed_at, failure, raised>>

\* ------------------------------------------------------------ sequences
Range(s) == {s[j] : j \in 1..Len(s)}

\* deque.pop(): the right end.  deque.appendleft(c): the left end.
PopValue(pool) == pool[Len(pool)]
\* (mutant: the connection handed out stays in the deque)
PopRestMutPeek(pool) == pool
PopRest(pool) == SubSeq(pool, 1, Len(pool) - 1)
\* (mutant: the connection is put back at the right end)
AppendLeftMutRight(pool, c) == pool \o <<c>>
AppendLeft(pool, c) == <<c>> \o pool

\* ------------------------------------------------------ driver registry
\* The decorators of sql_engine.py in the order the import applies them: of
\* two decorators stacked on one class the lower one runs first.
Decorations ==
    << <<"oursql", "OurSqlEngine">>,
       <<"mysqldb", "PyMySqlEngine">>, <<"pymysql", "PyMySqlEngine">>,
       <<"mysqldb1", "MySqlDbEngine">>,
       <<"cymysql", "CyMySqlEngine">>,
       <<"umysqldb", "UMySqlEngine">> >>

RegisteredNames == {"cymysql", "mysqldb", "mysqldb1", "oursql", "pymysql", "umysqldb"}

\* (mutant: a name already registered keeps its class)
register_engineMutKeepFirst(registry, name, cls) ==
    [n \in (DOMAIN registry) \cup {name} |->
        IF n \in DOMAIN registry THEN registry[n] ELSE cls]
\* register_engine(name)(cls): _driver_registry[name] = cls
register_engine(registry, name, cls) ==
    [n \in (DOMAIN registry) \cup {name} |-> IF n = name THEN cls ELSE registry[n]]

\* the registry once sql_engine is imported
RECURSIVE RegisterAll(_, _)
RegisterAll(registry, regs) ==
    IF regs = <<>> THEN registry
    ELSE RegisterAll(register_engine(registry, regs[1][1], regs[1][2]), Tail(regs))
ImportedRegistry == RegisterAll(<<>>, Decorations)

\* _driver_registry.get(name)
get_engine_class(name) ==
    IF name \in DOMAIN _driver_registry THEN _driver_registry[name] ELSE "None"

\* The names of the model in the order Python compares strings.
NameOrder ==
    <<"custom", "cymysql", "mysqldb", "mysqldb1", "nosuch", "oursql", "pymysql", "umysqldb">>
NameIndex(name) == CHOOSE i \in 1..Len(NameOrder) : NameOrder[i] = name
NameLess(a, b) == NameIndex(a) < NameIndex(b)

\* sorted(names)
RECURSIVE sorted(_)
sorted(names) ==
    IF names = {} THEN <<>>
    ELSE LET least == CHOOSE a \in names : \A b \in names : ~NameLess(b, a)
         IN  <<least>> \o sorted(names \ {least})

\* sorted(_driver_registry.keys())
list_engine_names == sorted(DOMAIN _driver_registry)

\* SphinxConnector.__init__: the engine is None when the name is not
\* registered or when constructing the class raises ImportError.
ConstructEngine(name, importable) ==
    IF get_engine_class(name) = "None" THEN "None"
    ELSE IF importable THEN get_engine_class(name) ELSE "None"

\* --------------------------------------------------- driver capability
ExceptionNames == {"ProgrammingError", "OperationalError"}
Errnos == {"None", "1064"}
DriverExceptions == [name : ExceptionNames, errno : Errnos]
NoException == [name |-> "none", errno |-> "None"]

\* raise_for_exception: the exception it raises, or "none" when it returns.
AbstractRaiseForException(e) == "SphinxQLDriverException"

OurSqlRaiseForException(e) ==
    IF e.name = "ProgrammingError"
    THEN IF e.errno # "None" THEN "SphinxQLDriverException" ELSE "none"
    ELSE "none"

raise_for_exception(eng, e) ==
    IF eng = "OurSqlEngine" THEN OurSqlRaiseForException(e)
    ELSE AbstractRaiseForException(e)

\* What the server answers to the n-th statement of a call.
DriverRows(text, n) ==
    CASE text = "SHOW META" -> <<[Variable_name |-> "total", Value |-> n]>>
      [] text = "SHOW STATUS" -> <<[Counter |-> "uptime", Value |-> n]>>
      [] OTHER -> <<[id |-> n]>>

\* dict(pairs): of the rows naming the same key, the last one gives the value
_normalize_meta(raw_result) ==
    [v \in {raw_result[j].Variable_name : j \in 1..Len(raw_result)} |->
        LET last == CHOOSE j \in 1..Len(raw_result) :
                /\ raw_result[j].Variable_name = v
                /\ \A k \in (j + 1)..Len(raw_result) : raw_result[k].Variable_name # v
        IN raw_result[last].Value]

_normalize_status(raw_result) ==
    [v \in {raw_result[j].Counter : j \in 1..Len(raw_result)} |->
        LET last == CHOOSE j \in 1..Len(raw_result) :
                /\ raw_result[j].Counter = v
                /\ \A k \in (j + 1)..Len(raw_result) : raw_result[k].Counter # v
        IN raw_result[last].Value]

\* ------------------------------------------------------------ dict ops
EmptyDict == <<>>
\* (mutant: an entry already present is kept)
DictSetMutKeepFirst(d, k, v) ==
    [x \in (DOMAIN d) \cup {k} |-> IF x \in DOMAIN d THEN d[x] ELSE v]
\* d[k] = v
DictSet(d, k, v) == [x \in (DOMAIN d) \cup {k} |-> IF x = k THEN v ELSE d[x]]


\* ---------------------------------------------------------- query items
NoQuery == [kind |-> "none"]
SingleQuery(text) == [kind |-> "single", text |-> text]
BatchQuery(pairs) == [kind |-> "batch", pairs |-> pairs]
IsBatch(q) == q.kind = "batch"

QueryTexts == {"SELECT 1", "SELECT 2"}
Aliases == {"a", "b"}
Pairs == QueryTexts \X Aliases
SeqsUpTo(S, n) == UNION {[1..k -> S] : k \in 0..n}
Batches == {BatchQuery(p) : p \in SeqsUpTo(Pairs, MaxBatch)}
\* what concurrent callers pass / what a lone caller passes
SmallQueryItems == {SingleQuery("SELECT 1"), BatchQuery(<<<<"SELECT 1", "a">>>>)}
AllQueryItems == {SingleQuery("SELECT 1")} \cup Batches

SqlEngineNames == {"oursql", "pymysql", "nosuch"}

\* ------------------------------------------------------------ the mutex
\* (mutant: the thread keeps the mutex when it leaves the block)
WithLockExitMutHold(t) == t
\* the value of the mutex when t leaves a `with self.__conn_lock:` block,
\* by its end or by an exception
WithLockExit(t) == NoThread

\* ----------------------------------------------------------------- Init
InitCall ==
    /\ pc = [t \in Threads |-> "idle"]
    /\ call = [t \in Threads |-> "none"]
    /\ sxql_query = [t \in Threads |-> NoQuery]
    /\ connection = [t \in Threads |-> NoConn]
    /\ cursor = [t \in Threads |-> "none"]
    /\ sent = [t \in Threads |-> <<>>]
    /\ pair = [t \in Threads |-> 1]
    /\ subresult = [t \in Threads |-> EmptyDict]
    /\ batch_results = [t \in Threads |-> EmptyDict]
    /\ total_results = [t \in Threads |-> EmptyDict]
    /\ failed_at = [t \in Threads |-> 0]
    /\ failure = [t \in Threads |-> NoException]
    /\ raised = [t \in Threads |-> "none"]
    /\ outcome = [t \in Threads |-> "none"]

\* SphinxConnector.__init__
Init ==
    /\ _driver_registry = ImportedRegistry
    /\ registrations = Decorations
    /\ \E name \in SqlEngineNames, importable \in BOOLEAN,
          size \in 1..MaxPoolSize, meta \in BOOLEAN, status \in BOOLEAN :
          /\ config = [SQL_ENGINE |-> name, POOL_SIZE |-> size,
                       WITH_META |-> meta, WITH_STATUS |-> status]
          /\ engine = ConstructEngine(name, importable)
    /\ connections_pool = <<>>
    /\ conn_lock = NoThread
    /\ local = [t \in Threads |-> [has |-> FALSE, conn |-> NoConn]]
    /\ created = 0
    /\ closed = {}
    /\ InitCall

\* -------------------------------------------------------------- helpers
Set(f, t, v) == [f EXCEPT ![t] = v]

\* the frame of a finished call goes away
ClearCall(t) ==
    /\ call' = Set(call, t, "none")
    /\ sxql_query' = Set(sxql_query, t, NoQuery)
    /\ connection' = Set(connection, t, NoConn)
    /\ cursor' = Set(cursor, t, "none")
    /\ sent' = Set(sent, t, <<>>)
    /\ pair' = Set(pair, t, 1)
    /\ subresult' = Set(subresult, t, EmptyDict)
    /\ batch_results' = Set(batch_results, t, EmptyDict)
    /\ total_results' = Set(total_results, t, EmptyDict)
    /\ failed_at' = Set(failed_at, t, 0)
    /\ failure' = Set(failure, t, NoException)
    /\ raised' = Set(raised, t, "none")
    /\ outcome' = Set(outcome, t, "none")

\* the call ends: by a return ("returned") or by the named exception
Finish(t, how) ==
    /\ pc' = Set(pc, t, "done")
    /\ outcome' = Set(outcome, t, how)

\* ------------------------------------------------------------ execute()
\* a caller enters execute(sxql_query)
Execute(t, q) ==
    /\ pc[t] = "idle"
    /\ pc' = Set(pc, t, "get_connection")
    /\ call' = Set(call, t, "execute")
    /\ sxql_query' = Set(sxql_query, t, q)
    /\ UNCHANGED <<registryVars, config, engine, poolVars, connection, cursor, sent, pair,
                   subresult, batch_results, total_results, failed_at, failure,
                   raised, outcome>>

\* get_connection(), line 85: take the mutex.  (The guard on created keeps
\* the model finite: a fill that would pass MaxConns is not started.)
GetConnectionLock(t) ==
    /\ pc[t] = "get_connection"
    /\ conn_lock = NoThread
    /\ \/ engine = "None"
       \/ connections_pool # <<>>
       \/ created + config.POOL_SIZE <= MaxConns
    /\ conn_lock' = t
    /\ pc' = Set(pc, t, "init_pool")
    /\ UNCHANGED <<registryVars, config, engine, connections_pool, local, created, closed,
                   call, callVars, outcome>>

\* _init_connection_pool(), lines 75-78: whether it raises ImproperlyConfigured
\* (mutant: the check of self.engine is missing)
InitPoolRaisesMutNever(eng) == FALSE
InitPoolRaises(eng) == eng = "None"

\* (mutant: the pool is filled once in the life of the client)
NeedsFillMutOnce(pool) == pool = <<>> /\ created = 0
\* _init_connection_pool(), line 79: whether the pool is filled by this call
NeedsFill(pool) == pool = <<>>

\* the pool after k connections were opened and appended
Filled(pool, n, k) == pool \o [j \in 1..k |-> n + j]

\* get_connection(), lines 86-88, under the mutex: fill the pool when it is
\* empty, pop a connection, bind it to the thread; the mutex is released on
\* every way out of the with block.
GetConnectionPop(t) ==
    /\ pc[t] = "init_pool"
    /\ conn_lock' = WithLockExit(t)
    /\ IF InitPoolRaises(engine)
       THEN /\ Finish(t, "ImproperlyConfigured")
            /\ UNCHANGED <<connections_pool, local, created, connection>>
       ELSE \E k \in 0..config.POOL_SIZE :
            LET fill == NeedsFill(connections_pool)
                pool == IF fill THEN Filled(connections_pool, created, k)
                        ELSE connections_pool
            IN  /\ fill \/ k = config.POOL_SIZE
                /\ created' = IF fill THEN created + k ELSE created
                /\ IF fill /\ k < config.POOL_SIZE
                   THEN \* the (k+1)-th connect raised
                        /\ connections_pool' = pool
                        /\ Finish(t, "DriverError")
                        /\ UNCHANGED <<local, connection>>
                   ELSE IF pool = <<>>
                   THEN \* pop from an empty deque
                        /\ connections_pool' = pool
                        /\ Finish(t, "IndexError")
                        /\ UNCHANGED <<local, connection>>
                   ELSE /\ connections_pool' = PopRest(pool)
                        /\ local' = Set(local, t, [has |-> TRUE, conn |-> PopValue(pool)])
                        /\ connection' = Set(connection, t, PopValue(pool))
                        /\ pc' = Set(pc, t, "get_cursor")
                        /\ UNCHANGED outcome
    /\ UNCHANGED <<registryVars, config, engine, closed, call, sxql_query, cursor, sent, pair,
                   subresult, batch_results, total_results, failed_at, failure,
                   raised>>

\* get_cursor(), line 135: outside the try statement, so an exception of
\* connection.cursor() leaves the with block as it is.
GetCursor(t) ==
    /\ pc[t] = "get_cursor"
    /\ \/ /\ cursor' = Set(cursor, t, "open")
          /\ pc' = Set(pc, t, "execute")
          /\ UNCHANGED outcome
       \/ /\ Finish(t, "DriverError")
          /\ UNCHANGED cursor
    /\ UNCHANGED <<registryVars, config, engine, poolVars, call, sxql_query, connection, sent,
                   pair, subresult, batch_results, total_results, failed_at,
                   failure, raised>>

\* ------------------------------------------------ the try block of execute()
\* _execute_batch(): the statement the loop sends next for a pair whose
\* subresult is sub: the query text, then SHOW META, then SHOW STATUS.
\* (mutant: SHOW STATUS is sent before SHOW META)
NextKeyMutStatusFirst(sub) ==
    IF "items" \notin DOMAIN sub THEN "items"
    ELSE IF config.WITH_STATUS /\ "status" \notin DOMAIN sub THEN "status"
    ELSE "meta"
NextKey(sub) ==
    IF "items" \notin DOMAIN sub THEN "items"
    ELSE IF config.WITH_META /\ "meta" \notin DOMAIN sub THEN "meta"
    ELSE "status"

StatementText(sub_ql, key) ==
    CASE key = "items" -> sub_ql
      [] key = "meta" -> "SHOW META"
      [] key = "status" -> "SHOW STATUS"

\* what is stored in the subresult under key from the rows of the cursor
SubresultValue(key, rows) ==
    CASE key = "items" -> rows
      [] key = "meta" -> _normalize_meta(rows)
      [] key = "status" -> _normalize_status(rows)

\* the pair is finished once sub holds every part the options ask for
PairComplete(sub) ==
    /\ "items" \in DOMAIN sub
    /\ config.WITH_META => "meta" \in DOMAIN sub
    /\ config.WITH_STATUS => "status" \in DOMAIN sub

\* (mutant: the failure is noted and the statement is sent again)
StatementFailsMutRetry(t, e) ==
    /\ failed_at' = Set(failed_at, t, Len(sent[t]) + 1)
    /\ failure' = Set(failure, t, e)
    /\ UNCHANGED <<raised, pc>>
\* the driver raises e on the statement just sent: the except clause of
\* execute() hands e to raise_for_exception, which raises or returns.
StatementFails(t, e) ==
    /\ failed_at' = Set(failed_at, t, Len(sent[t]) + 1)
    /\ failure' = Set(failure, t, e)
    /\ raised' = Set(raised, t, raise_for_exception(engine, e))
    /\ pc' = Set(pc, t, "finally")

\* _execute_batch(), lines 109-125: one engine.execute of the loop
BatchStatement(t) ==
    /\ pc[t] = "execute"
    /\ IsBatch(sxql_query[t])
    /\ pair[t] <= Len(sxql_query[t].pairs)
    /\ LET sub_ql == sxql_query[t].pairs[pair[t]][1]
           sub_alias == sxql_query[t].pairs[pair[t]][2]
           key == NextKey(subresult[t])
           text == StatementText(sub_ql, key)
           rows == DriverRows(text, Len(sent[t]) + 1)
           sub == DictSet(subresult[t], key, SubresultValue(key, rows))
       IN  /\ sent' = Set(sent, t, Append(sent[t], text))
           /\ \/ /\ IF PairComplete(sub)
                    THEN /\ batch_results' =
                               Set(batch_results, t, DictSet(batch_results[t], sub_alias, sub))
                         /\ subresult' = Set(subresult, t, EmptyDict)
                         /\ pair' = Set(pair, t, pair[t] + 1)
                    ELSE /\ subresult' = Set(subresult, t, sub)
                         /\ UNCHANGED <<batch_results, pair>>
                 /\ UNCHANGED <<pc, failed_at, failure, raised>>
              \/ /\ \E e \in DriverExceptions : StatementFails(t, e)
                 /\ UNCHANGED <<subresult, batch_results, pair>>
    /\ UNCHANGED <<registryVars, config, engine, poolVars, call, sxql_query, connection, cursor,
                   total_results, outcome>>

\* _execute_batch(), line 127, and the assignment of line 139
BatchReturn(t) ==
    /\ pc[t] = "execute"
    /\ IsBatch(sxql_query[t])
    /\ pair[t] > Len(sxql_query[t].pairs)
    /\ total_results' = Set(total_results, t, batch_results[t])
    /\ pc' = Set(pc, t, "finally")
    /\ UNCHANGED <<registryVars, config, engine, poolVars, call, sxql_query, connection, cursor,
                   sent, pair, subresult, batch_results, failed_at, failure, raised,
                   outcome>>

\* _execute_query(), lines 130-131, and the assignment of line 141
QueryStatement(t) ==
    /\ pc[t] = "execute"
    /\ ~IsBatch(sxql_query[t])
    /\ sent' = Set(sent, t, Append(sent[t], sxql_query[t].text))
    /\ \/ /\ total_results' =
                Set(total_results, t, DriverRows(sxql_query[t].text, Len(sent[t]) + 1))
          /\ pc' = Set(pc, t, "finally")
          /\ UNCHANGED <<failed_at, failure, raised>>
       \/ /\ \E e \in DriverExceptions : StatementFails(t, e)
          /\ UNCHANGED total_results
    /\ UNCHANGED <<registryVars, config, engine, poolVars, call, sxql_query, connection, cursor,
                   pair, subresult, batch_results, outcome>>

\* where the with statement of execute() goes once its body is over: the
\* generator of get_connection() has no try around its yield, so an exception
\* thrown into it ends it there and lines 92-94 do not run.
\* (mutant: the cursor is left as it is)
CursorCloseMutSkip(c) == c
\* cursor.close(), line 145
CursorClose(c) == IF c = "open" THEN "closed" ELSE "closed again"

AfterBody(exc) == IF exc = "none" THEN "release" ELSE "done"

\* execute(), line 145: the finally clause, then the exit of the with block
Finally(t) ==
    /\ pc[t] = "finally"
    /\ cursor' = Set(cursor, t, CursorClose(cursor[t]))
    /\ pc' = Set(pc, t, AfterBody(raised[t]))
    /\ outcome' = Set(outcome, t, IF AfterBody(raised[t]) = "done" THEN raised[t]
                                  ELSE outcome[t])
    /\ UNCHANGED <<registryVars, config, engine, poolVars, call, sxql_query, connection, sent,
                   pair, subresult, batch_results, total_results, failed_at,
                   failure, raised>>

\* get_connection(), line 92: take the mutex again
ReleaseLock(t) ==
    /\ pc[t] = "release"
    /\ conn_lock = NoThread
    /\ conn_lock' = t
    /\ pc' = Set(pc, t, "appendleft")
    /\ UNCHANGED <<registryVars, config, engine, connections_pool, local, created, closed,
                   call, callVars, outcome>>

\* get_connection(), lines 93-94, under the mutex; then execute() returns
Release(t) ==
    /\ pc[t] = "appendleft"
    /\ local' = Set(local, t, [has |-> TRUE, conn |-> NoConn])
    /\ connections_pool' = AppendLeft(connections_pool, connection[t])
    /\ conn_lock' = WithLockExit(t)
    /\ Finish(t, "returned")
    /\ UNCHANGED <<registryVars, config, engine, created, closed, call, callVars>>

\* the caller has the result or the exception; the frame is dropped
Return(t) ==
    /\ pc[t] = "done"
    /\ pc' = Set(pc, t, "idle")
    /\ ClearCall(t)
    /\ UNCHANGED <<registryVars, config, engine, poolVars>>

\* -------------------------------------------------- close_connections()
CloseConnections(t) ==
    /\ pc[t] = "idle"
    /\ pc' = Set(pc, t, "close_connections")
    /\ call' = Set(call, t, "close_connections")
    /\ UNCHANGED <<registryVars, config, engine, poolVars, callVars, outcome>>

\* line 64: take the mutex
CloseLock(t) ==
    /\ pc[t] = "close_connections"
    /\ conn_lock = NoThread
    /\ conn_lock' = t
    /\ pc' = Set(pc, t, "closing")
    /\ UNCHANGED <<registryVars, config, engine, connections_pool, local, created, closed,
                   call, callVars, outcome>>

\* (mutant: the sweep reaches every connection the pool ever opened)
SweptMutAll(pool) == 1..created
\* the connections the sweep of lines 67-71 calls close() on
Swept(pool) == Range(pool)

\* the pool the sweep leaves (line 72)
\* (mutant: the deque is not cleared)
ClearedMutKeep(pool) == pool
Cleared(pool) == <<>>

\* lines 65-72, under the mutex: drop the thread's slot, close every idle
\* connection (an exception of close() is swallowed), empty the pool
CloseSweep(t) ==
    /\ pc[t] = "closing"
    /\ local' = Set(local, t, [has |-> FALSE, conn |-> NoConn])
    /\ \E failing \in SUBSET Swept(connections_pool) :
          closed' = closed \cup (Swept(connections_pool) \ failing)
    /\ connections_pool' = Cleared(connections_pool)
    /\ conn_lock' = WithLockExit(t)
    /\ Finish(t, "returned")
    /\ UNCHANGED <<registryVars, config, engine, created, call, callVars>>

\* ------------------------------------------------------- specifications
Step(t, items) ==
    \/ \E q \in items : Execute(t, q)
    \/ GetConnectionLock(t)
    \/ GetConnectionPop(t)
    \/ GetCursor(t)
    \/ BatchStatement(t)
    \/ BatchReturn(t)
    \/ QueryStatement(t)
    \/ Finally(t)
    \/ ReleaseLock(t)
    \/ Release(t)
    \/ Return(t)
    \/ CloseConnections(t)
    \/ CloseLock(t)
    \/ CloseSweep(t)

\* The threads of the model call into one client concurrently, configured
\* without the introspection queries.
InitPlain == Init /\ ~config.WITH_META /\ ~config.WITH_STATUS
Next == \E t \in Threads : Step(t, SmallQueryItems)
Spec == InitPlain /\ [][Next]_vars

\* A caller of the module registers further driver classes, under new names
\* and under names already taken.
RegisterNames == {"pymysql", "mysqldb", "custom"}
RegisterClasses == {"OurSqlEngine", "PyMySqlEngine", "CustomEngine"}

Register(name, cls) ==
    /\ Len(registrations) < Len(Decorations) + MaxRegistrations
    /\ _driver_registry' = register_engine(_driver_registry, name, cls)
    /\ registrations' = Append(registrations, <<name, cls>>)
    /\ UNCHANGED <<config, engine, poolVars, pc, call, callVars, outcome>>

NextRegistry == \E name \in RegisterNames, cls \in RegisterClasses : Register(name, cls)
SpecRegistry == InitPlain /\ [][NextRegistry]_vars

\* The threads of the model call concurrently into one client configured
\* with both introspection queries.
InitIntro == Init /\ config.WITH_META /\ config.WITH_STATUS
SpecIntro == InitIntro /\ [][Next]_vars

\* The steps of a call under way: critical sections and driver calls.
Progress(t) ==
    \/ GetConnectionLock(t)
    \/ GetConnectionPop(t)
    \/ GetCursor(t)
    \/ BatchStatement(t)
    \/ BatchReturn(t)
    \/ QueryStatement(t)
    \/ Finally(t)
    \/ ReleaseLock(t)
    \/ Release(t)
    \/ CloseLock(t)
    \/ CloseSweep(t)

\* the threads that have called execute() and have not yet left the
\* critical section of acquire
Acquiring == {t \in Threads : pc[t] \in {"get_connection", "init_pool"}}

\* An execute() is started only while every acquire under way, and this
\* one, can still fill the pool within MaxLiveConns, so that the guard on
\* created in GetConnectionLock never holds a thread back.
ExecuteWithinMaxConns(t, q) ==
    /\ \/ engine = "None"
       \/ created + config.POOL_SIZE * (Cardinality(Acquiring) + 1) <= MaxLiveConns
    /\ Execute(t, q)

NextLive ==
    \E t \in Threads :
        \/ \E q \in SmallQueryItems : ExecuteWithinMaxConns(t, q)
        \/ CloseConnections(t)
        \/ Progress(t)
        \/ Return(t)

\* Driver calls return and the critical sections end (weak fairness of the
\* steps of a call); the mutex is fair (strong fairness of taking it).
Fairness ==
    \A t \in Threads :
        /\ WF_vars(Progress(t))
        /\ SF_vars(GetConnectionLock(t))
        /\ SF_vars(ReleaseLock(t))
        /\ SF_vars(CloseLock(t))

SpecLive == InitPlain /\ [][NextLive]_vars /\ Fairness

\* One thread calls into a client of any configuration, with a single query
\* or any batch of up to MaxBatch pairs.
NextSeq == Step(1, AllQueryItems)
SpecSeq == Init /\ [][NextSeq]_vars

TypeOK ==
    /\ conn_lock \in Threads \cup {NoThread}
    /\ created \in 0..(MaxConns + MaxPoolSize)
    /\ closed \subseteq 1..created
    /\ Range(connections_pool) \subseteq 1..created

\* ================================================================ claims
\* t has a connection checked out: from the pop of line 87 to the
\* appendleft of line 94
Holds(t) == pc[t] \in {"get_cursor", "execute", "finally", "release", "appendleft"}

\* t's call is over and was execute() / close_connections()
DoneExecute(t) == pc[t] = "done" /\ call[t] = "execute"
DoneClose(t) == pc[t] = "done" /\ call[t] = "close_connections"

\* ---------------------------------------------------------------- C1
\* C1: exclusive ownership.  No connection is in the idle collection twice,
\* none is idle while a thread has it checked out, and no two threads have
\* the same connection checked out; a checked-out connection is one the
\* pool opened and the thread's slot names it.
ExclusiveOwnership ==
    /\ \A i, j \in 1..Len(connections_pool) :
          i # j => connections_pool[i] # connections_pool[j]
    /\ \A t \in Threads : Holds(t) =>
          /\ connection[t] \in 1..created
          /\ connection[t] \notin Range(connections_pool)
          /\ local[t] = [has |-> TRUE, conn |-> connection[t]]
    /\ \A t, u \in Threads :
          (t # u /\ Holds(t) /\ Holds(u)) => connection[t] # connection[u]

\* two threads hold connections while a third connection is idle
ExclusiveOwnershipWitness ==
    \E t, u \in Threads :
        /\ t # u /\ Holds(t) /\ Holds(u)
        /\ connections_pool # <<>>

\* ---------------------------------------------------------------- C2
\* C2: with a usable driver, the pool never opens more than POOL_SIZE
\* connections in total.
CreatedAtMostPoolSize ==
    engine # "None" => created <= config.POOL_SIZE

\* ---------------------------------------------------------------- C3
\* C3: when an execute() that acquired a connection is over, by a return or
\* by an exception, that connection is back in the idle collection and the
\* caller's slot is cleared.
ReleasedOnEveryExit ==
    \A t \in Threads :
        (/\ DoneExecute(t) /\ connection[t] # NoConn
         /\ outcome[t] = "returned" \/ failed_at[t] # 0) =>
            /\ connection[t] \in Range(connections_pool)
            /\ local[t].conn = NoConn

\* ---------------------------------------------------------------- C4
\* C4: at most POOL_SIZE connections are checked out at any moment.
CheckedOutAtMostPoolSize ==
    Cardinality({t \in Threads : Holds(t)}) <= config.POOL_SIZE

\* ---------------------------------------------------------------- C5
\* the one exception shape C5 exempts
TriStateBenign(eng, e) ==
    eng = "OurSqlEngine" /\ e.name = "ProgrammingError" /\ e.errno = "None"

\* C5: when the driver raised on a statement of execute(), execute() raises
\* SphinxQLDriverException, unless the exception is a ProgrammingError with
\* a null error code under oursql.
DriverFailurePropagates ==
    \A t \in Threads :
        (DoneExecute(t) /\ failed_at[t] # 0 /\ ~TriStateBenign(engine, failure[t])) =>
            outcome[t] = "SphinxQLDriverException"

\* ---------------------------------------------------------------- C6
\* t's batch call is over and the driver raised on one of its statements
BatchFailed(t) ==
    DoneExecute(t) /\ IsBatch(sxql_query[t]) /\ failed_at[t] # 0

Unconfigured ==
    /\ get_engine_class(config.SQL_ENGINE) = "None" => engine = "None"
    /\ engine = "None" =>
          /\ created = 0
          /\ connections_pool = <<>>
          /\ \A t \in Threads :
                /\ DoneExecute(t) => outcome[t] = "ImproperlyConfigured"
                /\ call[t] = "execute" =>
                      pc[t] \in {"get_connection", "init_pool", "done"}
                /\ conn_lock = t => pc[t] \in {"init_pool", "closing"}

\* an execute() raised the configuration error, the mutex is free, and
\* another thread's call went through the mutex after it
UnconfiguredWitness ==
    \E t, u \in Threads :
        /\ t # u
        /\ get_engine_class(config.SQL_ENGINE) = "None"
        /\ DoneExecute(t) /\ outcome[t] = "ImproperlyConfigured"
        /\ pc[u] = "done" /\ outcome[u] \in {"ImproperlyConfigured", "returned"}
        /\ conn_lock = NoThread

\* ---------------------------------------------------------------- C8
\* t's close_connections() leaves its critical section in this step
CloseCompletes(t) == pc[t] = "closing" /\ pc'[t] = "done"

\* C8: every close_connections(), whatever the pool holds and whichever
\* close() fails, returns normally with the idle collection empty and the
\* mutex free; on an empty idle collection it closes nothing.
CloseIdempotent ==
    [][\A t \in Threads :
          CloseCompletes(t) =>
              /\ outcome'[t] = "returned"
              /\ connections_pool' = <<>>
              /\ conn_lock' = NoThread
              /\ connections_pool = <<>> => closed' = closed]_vars

\* a close_connections() is over on a pool that was filled, where one
\* close() succeeded and another connection was not closed
CloseIdempotentWitness ==
    \E t \in Threads :
        /\ DoneClose(t) /\ outcome[t] = "returned"
        /\ connections_pool = <<>>
        /\ closed # {}
        /\ closed # 1..created

\* ---------------------------------------------------------------- C9
\* t's batch call returned and the driver raised on none of its statements
BatchSucceeded(t) ==
    /\ DoneExecute(t) /\ IsBatch(sxql_query[t])
    /\ outcome[t] = "returned" /\ failed_at[t] = 0

\* the introspection statements the options ask for after each query
Introspection ==
    (IF config.WITH_META THEN <<"SHOW META">> ELSE <<>>)
        \o (IF config.WITH_STATUS THEN <<"SHOW STATUS">> ELSE <<>>)

RECURSIVE ExpectedStatements(_)
ExpectedStatements(pairs) ==
    IF pairs = <<>> THEN <<>>
    ELSE <<pairs[1][1]>> \o Introspection \o ExpectedStatements(Tail(pairs))

ExpectedKeys ==
    {"items"} \cup (IF config.WITH_META THEN {"meta"} ELSE {})
              \cup (IF config.WITH_STATUS THEN {"status"} ELSE {})

\* C9: a batch whose statements all succeed sends, pair by pair in batch
\* order, the query text, then SHOW META iff WITH_META, then SHOW STATUS iff
\* WITH_STATUS, and nothing else; the mapping returned has the aliases of
\* the batch as its keys, and each entry has "items" and has "meta" and
\* "status" exactly when the option is enabled.
BatchStatementsAndKeys ==
    \A t \in Threads :
        BatchSucceeded(t) =>
            LET pairs == sxql_query[t].pairs
            IN  /\ sent[t] = ExpectedStatements(pairs)
                /\ DOMAIN total_results[t] = {pairs[j][2] : j \in 1..Len(pairs)}
                /\ \A a \in DOMAIN total_results[t] :
                      DOMAIN total_results[t][a] = ExpectedKeys

\* a batch of two different query texts returned with both options enabled
BatchStatementsAndKeysWitness ==
    \E t \in Threads :
        /\ BatchSucceeded(t)
        /\ config.WITH_META /\ config.WITH_STATUS
        /\ Len(sxql_query[t].pairs) >= 2
        /\ sxql_query[t].pairs[1][1] # sxql_query[t].pairs[2][1]
        /\ Len(sent[t]) >= 6

\* --------------------------------------------------------------- C10
\* the last pair of the batch carrying alias a
LastWithAlias(pairs, a) ==
    CHOOSE k \in 1..Len(pairs) :
        pairs[k][2] = a /\ \A j \in (k + 1)..Len(pairs) : pairs[j][2] # a

\* position, among the statements of the call, of the first statement of pair k
FirstStatementOf(k) == (k - 1) * Len(<<"query">> \o Introspection) + 1

\* what pair k of the batch puts in the mapping when every statement succeeds
ExpectedEntry(pairs, k) ==
    LET n == FirstStatementOf(k)
        nStatus == IF config.WITH_META THEN n + 2 ELSE n + 1
    IN  [key \in ExpectedKeys |->
            CASE key = "items" -> DriverRows(pairs[k][1], n)
              [] key = "meta" -> [total |-> n + 1]
              [] key = "status" -> [uptime |-> nStatus]]

\* C10: last alias wins.  The entry of an alias holds the items, meta and
\* status of the last pair carrying that alias, and the statements of every
\* pair, the overwritten ones included, were sent.
LastAliasWins ==
    \A t \in Threads :
        BatchSucceeded(t) =>
            LET pairs == sxql_query[t].pairs
            IN  /\ Len(sent[t]) = FirstStatementOf(Len(pairs) + 1) - 1
                /\ \A a \in DOMAIN total_results[t] :
                      total_results[t][a] =
                          ExpectedEntry(pairs, LastWithAlias(pairs, a))

\* a batch whose first and last pairs share an alias returned, with meta
LastAliasWinsWitness ==
    \E t \in Threads :
        /\ BatchSucceeded(t)
        /\ config.WITH_META
        /\ Len(sxql_query[t].pairs) = 3
        /\ sxql_query[t].pairs[1][2] = sxql_query[t].pairs[3][2]
        /\ sxql_query[t].pairs[1][1] # sxql_query[t].pairs[3][1]
        /\ Cardinality(DOMAIN total_results[t]) = 2

\* --------------------------------------------------------------- C11
\* C11: under oursql, when a statement of a batch raises a ProgrammingError
\* with a null error code, execute() returns, the mapping returned keeps
\* the entries of the pairs completed before it, and the statements of the
\* remaining pairs have been sent as if none had failed.
SwallowedProceeds ==
    \A t \in Threads :
        (BatchFailed(t) /\ TriStateBenign(engine, failure[t])) =>
            LET pairs == sxql_query[t].pairs
            IN  /\ outcome[t] = "returned"
                /\ {pairs[j][2] : j \in 1..(pair[t] - 1)} \subseteq DOMAIN total_results[t]
                /\ Len(sent[t]) = Len(ExpectedStatements(pairs))

\* --------------------------------------------------------------- C12
\* C12: an execute() that ends with an exception of the driver library,
\* raised by a connect of the lazy fill or by the creation of the cursor,
\* ends with SphinxQLDriverException.
ConnectFailureNormalized ==
    \A t \in Threads :
        (DoneExecute(t) /\ failed_at[t] = 0
            /\ outcome[t] \notin {"returned", "ImproperlyConfigured", "IndexError"}) =>
                outcome[t] = "SphinxQLDriverException"

\* --------------------------------------------------------------- C13
\* the last registration made under name, or 0
LastRegistration(name) ==
    LET made == {i \in 1..Len(registrations) : registrations[i][1] = name}
    IN  IF made = {} THEN 0 ELSE CHOOSE i \in made : \A j \in made : j <= i

\* C13: after any sequence of registrations, get_engine_class(name) is the
\* class of the last registration made under name, and None for a name
\* never registered; list_engine_names() holds exactly the registered names,
\* in strictly increasing order; and as long as nobody re-registers them,
\* "pymysql" and "mysqldb" both look up to PyMySqlEngine.
RegistryContract ==
    /\ \A name \in Range(NameOrder) :
          get_engine_class(name) =
              IF LastRegistration(name) = 0 THEN "None"
              ELSE registrations[LastRegistration(name)][2]
    /\ Range(list_engine_names) = {registrations[i][1] : i \in 1..Len(registrations)}
    /\ \A i, j \in 1..Len(list_engine_names) :
          i < j => NameLess(list_engine_names[i], list_engine_names[j])
    /\ (\A name \in {"pymysql", "mysqldb"} :
            LastRegistration(name) <= Len(Decorations)) =>
          /\ get_engine_class("pymysql") = "PyMySqlEngine"
          /\ get_engine_class("mysqldb") = "PyMySqlEngine"

\* a new name was registered, and then a name of the module was registered
\* again for another class
RegistryContractWitness ==
    /\ Len(registrations) = Len(Decorations) + 2
    /\ registrations[Len(Decorations) + 1] = <<"custom", "CustomEngine">>
    /\ registrations[Len(Decorations) + 2] = <<"mysqldb", "CustomEngine">>
    /\ get_engine_class("mysqldb") # get_engine_class("pymysql")
    /\ Len(list_engine_names) = 7

\* --------------------------------------------------------------- C14
\* u passes a statement to the driver in this step
Issues(u) == sent'[u] # sent[u] /\ sent'[u] # <<>>

\* t has issued a statement of its call and has not left the try block
MidCall(t) == pc[t] = "execute" /\ sent[t] # <<>>

\* C14: whenever a thread issues a statement, it issues it on the
\* connection its call checked out and still has; no other thread that is
\* between the first and the last statement of its call has that
\* connection; and in a batch the statements follow each other as query
\* text, SHOW META, SHOW STATUS, pair by pair, so that an introspection
\* statement is the next statement on the connection after its query.
StatementsOnOwnConnection ==
    [][\A u \in Threads :
          Issues(u) =>
              /\ connection[u] # NoConn
              /\ connection'[u] = connection[u]
              /\ local[u].conn = connection[u]
              /\ connection[u] \notin Range(connections_pool)
              /\ \A t \in Threads \ {u} : MidCall(t) => connection[t] # connection[u]
              /\ IsBatch(sxql_query[u]) =>
                    sent'[u] = SubSeq(ExpectedStatements(sxql_query[u].pairs),
                                      1, Len(sent'[u]))]_vars

\* a thread has sent SHOW STATUS for its query while another thread has
\* sent its query and not yet SHOW META, both on connections of one pool
StatementsOnOwnConnectionWitness ==
    \E t, u \in Threads :
        /\ t # u /\ MidCall(t) /\ MidCall(u)
        /\ IsBatch(sxql_query[t]) /\ IsBatch(sxql_query[u])
        /\ Len(sent[t]) = 3 /\ sent[t][3] = "SHOW STATUS"
        /\ Len(sent[u]) = 1
        /\ connection[t] # connection[u]

\* --------------------------------------------------------------- C15
\* C15: a thread holds the mutex only inside the critical section of
\* acquire, of release or of close_connections, never between its pop and
\* its release; and while one thread's query is running, a thread waiting
\* to acquire an idle connection can take the mutex as soon as no third
\* thread has it.
MutexOnlyInCriticalSections ==
    /\ \A t \in Threads :
          conn_lock = t => pc[t] \in {"init_pool", "appendleft", "closing"}
    /\ \A t \in Threads :
          pc[t] \in {"get_cursor", "execute", "finally"} => conn_lock # t
    /\ \A t, u \in Threads :
          (/\ pc[t] = "execute" /\ pc[u] = "get_connection"
           /\ connections_pool # <<>>
           /\ conn_lock \notin Threads \ {t}) => ENABLED GetConnectionLock(u)

\* one thread is inside the critical section of acquire, about to pop an
\* idle connection, while another thread's query is running
MutexOnlyInCriticalSectionsWitness ==
    \E t, u \in Threads :
        /\ pc[t] = "execute" /\ sent[t] = <<>>
        /\ pc[u] = "init_pool" /\ conn_lock = u
        /\ connections_pool # <<>>

\* --------------------------------------------------------------- C16
\* C16: a cursor execute() obtained is never closed twice; it is closed by
\* the time the call takes the mutex to put its connection back, and by the
\* time the call is over, whether it returned or raised.
CursorClosedOnce ==
    \A t \in Threads :
        /\ cursor[t] \in {"none", "open", "closed"}
        /\ pc[t] \in {"release", "appendleft"} => cursor[t] = "closed"
        /\ (DoneExecute(t) /\ cursor[t] # "none") => cursor[t] = "closed"
        /\ (call[t] = "execute" /\ connection[t] \in Range(connections_pool)) =>
              cursor[t] = "closed"

\* one execute() raised the normalized error and another returned after a
\* swallowed exception, each with its cursor closed
CursorClosedOnceWitness ==
    \E t, u \in Threads :
        /\ DoneExecute(t) /\ outcome[t] = "SphinxQLDriverException"
        /\ cursor[t] = "closed"
        /\ DoneExecute(u) /\ outcome[u] = "returned" /\ failed_at[u] # 0
        /\ cursor[u] = "closed" /\ connection[u] \in Range(connections_pool)

\* --------------------------------------------------------------- C17
\* u puts its connection back in this step
Releases(u) == pc[u] = "appendleft" /\ pc'[u] = "done"

\* C17: a close_connections() closes no connection but those idle when it
\* runs, and leaves the threads that have a connection checked out, their
\* connection and their slot as they are; a checked-out connection is never
\* a closed one and neither is an idle one; and a release puts the
\* connection at the front of the idle collection without opening any.
CloseSparesCheckedOut ==
    /\ [](\A u \in Threads : Holds(u) => connection[u] \notin closed)
    /\ [](\A j \in 1..Len(connections_pool) : connections_pool[j] \notin closed)
    /\ [][\A t \in Threads :
            CloseCompletes(t) =>
                /\ closed' \ closed \subseteq Range(connections_pool)
                /\ \A u \in Threads :
                      Holds(u) => /\ pc'[u] = pc[u]
                                  /\ connection'[u] = connection[u]
                                  /\ local'[u] = local[u]]_vars
    /\ [][\A u \in Threads :
            Releases(u) =>
                /\ connections_pool' = <<connection[u]>> \o connections_pool
                /\ created' = created
                /\ closed' = closed]_vars

\* after a close_connections() that closed a connection, an execute() that
\* was under way returned and its connection is idle again, and the pool
\* has opened no connection beyond its first fill
CloseSparesCheckedOutWitness ==
    \E t, u \in Threads :
        /\ DoneClose(t)
        /\ DoneExecute(u) /\ outcome[u] = "returned"
        /\ connections_pool = <<connection[u]>>
        /\ closed # {}
        /\ created = config.POOL_SIZE

\* --------------------------------------------------------------- C18
\* C18: no thread has the mutex once its call is over or before it calls,
\* whichever way the call ended; and, driver calls returning and the mutex
\* being fair, every execute() and close_connections() a thread has started
\* comes to its end, by a return or by an exception.
EveryCallEnds ==
    /\ [](\A t \in Threads : pc[t] \in {"idle", "done"} => conn_lock # t)
    /\ \A t \in Threads : (pc[t] # "idle") ~> (pc[t] = "done")

\* an execute() ended with the exception of a failing connect of the lazy
\* fill, the mutex is free, and another thread is waiting to take it
EveryCallEndsWitness ==
    \E t, u \in Threads :
        /\ DoneExecute(t) /\ outcome[t] = "DriverError" /\ connection[t] = NoConn
        /\ pc[u] \in {"get_connection", "close_connections"}
        /\ conn_lock = NoThread

\* --------------------------------------------------------------- C19
\* t leaves the critical section of acquire in this step / with a connection
Acquires(t) == pc[t] = "init_pool" /\ pc'[t] # "init_pool"
HandedOut(t) == Acquires(t) /\ pc'[t] = "get_cursor"

\* C19: on a client with a usable driver no acquire ever finds nothing to
\* pop; an acquire that finds the idle collection empty and hands out a
\* connection has opened POOL_SIZE new connections and hands out one of
\* them, leaving the others idle; and a connection handed out is never one
\* a sweep has closed.
UsableAfterClose ==
    [][\A t \in Threads :
          /\ (Acquires(t) /\ engine # "None") => outcome'[t] # "IndexError"
          /\ (HandedOut(t) /\ connections_pool = <<>>) =>
                /\ created' = created + config.POOL_SIZE
                /\ connection'[t] \in (created + 1)..created'
                /\ Range(connections_pool') = ((created + 1)..created') \ {connection'[t]}
          /\ HandedOut(t) => connection'[t] \notin closed]_vars

\* a sweep has closed every connection of the first fill, and a thread now
\* has a connection of the second fill checked out
UsableAfterCloseWitness ==
    \E t \in Threads :
        /\ Holds(t)
        /\ closed = 1..config.POOL_SIZE
        /\ created = 2 * config.POOL_SIZE
        /\ connection[t] > config.POOL_SIZE

\* --------------------------------------------------------------- C20
\* the idle collection with the connection t has checked out, if any, at
\* the right end it was popped from
Ring(t) ==
    IF Holds(t) THEN connections_pool \o <<connection[t]>> ELSE connections_pool

\* the deque after one acquire and release, and after k of them
Cycle(pool) == AppendLeft(PopRest(pool), PopValue(pool))
RECURSIVE Cycled(_, _)
Cycled(pool, k) == IF k = 0 THEN pool ELSE Cycled(Cycle(pool), k - 1)
\* the connection the k-th next acquire takes from it, counting from 0
UsedBy(pool, k) == PopValue(Cycled(pool, k))

\* C20: round-robin reuse for a lone caller.  An acquire that does not fill
\* takes the connection at the right end of the idle collection, a release
\* puts it at the left end, so that a call that returns turns the deque by
\* one place; and on every deque of POOL_SIZE connections the caller comes
\* to have, the acquire POOL_SIZE calls later takes the same connection
\* and any POOL_SIZE consecutive acquires take different ones.
RoundRobin ==
    /\ [][\A t \in Threads :
            (HandedOut(t) /\ connections_pool # <<>>) =>
                /\ connection'[t] = connections_pool[Len(connections_pool)]
                /\ Ring(t)' = Ring(t)]_vars
    /\ [][\A t \in Threads :
            Releases(t) =>
                /\ connections_pool'[1] = connection[t]
                /\ Ring(t)' = Cycle(Ring(t))]_vars
    /\ [](\A t \in Threads :
            Len(Ring(t)) = config.POOL_SIZE =>
                /\ \A k \in 0..config.POOL_SIZE :
                      UsedBy(Ring(t), k + config.POOL_SIZE) = UsedBy(Ring(t), k)
                /\ \A k \in 0..config.POOL_SIZE, l \in 0..(2 * config.POOL_SIZE) :
                      (k < l /\ l < k + config.POOL_SIZE) =>
                          UsedBy(Ring(t), k) # UsedBy(Ring(t), l))

\* on a pool of two connections the caller's first call used connection 2
\* and the call that has now returned used connection 1
RoundRobinWitness ==
    \E t \in Threads :
        /\ DoneExecute(t) /\ outcome[t] = "returned" /\ failed_at[t] = 0
        /\ config.POOL_SIZE = 2 /\ created = 2
        /\ connection[t] = 1
        /\ connections_pool = <<1, 2>>
====
